---- MODULE Spec2Model ----
(***************************************************************************)
(* Model of copilot_json_to_pdf.py: main(), CopilotChatPDF.convert() and   *)
(* the text routines it calls.  Strings are sequences of one-character     *)
(* strings; positions are Python's (0-based, half-open spans).             *)
(***************************************************************************)
EXTENDS Integers, Sequences, FiniteSets, TLC

\* ------------------------------------------------------------------ bounds
\* Longest response text of TextSpec, counted in chunks of Chunks.
MaxChunks == 4
\* Longest document of Spec, counted in records.
MaxRecords == 2

\* ----------------------------------------------------------- Python strings
\* s[a:b] for 0 <= a, with Python's clamping of b.
Slice(s, a, b) == SubSeq(s, a + 1, IF b > Len(s) THEN Len(s) ELSE b)

\* s.startswith(lit, p)
HasAt(s, p, lit) ==
    /\ p >= 0
    /\ p + Len(lit) <= Len(s)
    /\ SubSeq(s, p + 1, p + Len(lit)) = lit

\* the least element of a non-empty set of integers
Min(S) == CHOOSE x \in S : \A y \in S : x <= y

\* ''.join(ss[a-1:b]), by halves
RECURSIVE ConcatRange(_, _, _)
ConcatRange(ss, a, b) ==
    IF a > b THEN <<>>
    ELSE IF a = b THEN ss[a]
    ELSE LET mid == (a + b) \div 2
         IN ConcatRange(ss, a, mid) \o ConcatRange(ss, mid + 1, b)

Concat(ss) == ConcatRange(ss, 1, Len(ss))

\* \w of the re module, restricted to ASCII
WordChars ==
    {"a", "b", "c", "d", "e", "f", "g", "h", "i", "j", "k", "l", "m",
     "n", "o", "p", "q", "r", "s", "t", "u", "v", "w", "x", "y", "z",
     "A", "B", "C", "D", "E", "F", "G", "H", "I", "J", "K", "L", "M",
     "N", "O", "P", "Q", "R", "S", "T", "U", "V", "W", "X", "Y", "Z",
     "0", "1", "2", "3", "4", "5", "6", "7", "8", "9", "_"}

\* \d of the re module, restricted to ASCII
Digits == {"0", "1", "2", "3", "4", "5", "6", "7", "8", "9"}

\* the characters str.strip() removes
Whitespace == {" ", "\t", "\n", "\r", "\f"}

\* length of the longest run of characters of set cs that starts at position p
RunLen(s, p, cs) ==
    IF p >= Len(s) THEN 0
    ELSE Min({e \in p..Len(s) : e = Len(s) \/ s[e + 1] \notin cs}) - p

\* bool(s.strip())
StripNonEmpty(s) == \E k \in 1..Len(s) : s[k] \notin Whitespace

DigitChar(d) == <<"0", "1", "2", "3", "4", "5", "6", "7", "8", "9">>[d + 1]

\* str(n) of a non-negative int, as the f-strings format the counter
RECURSIVE Str(_)
Str(n) == IF n < 10 THEN <<DigitChar(n)>> ELSE Str(n \div 10) \o <<DigitChar(n % 10)>>

\* The backtick character (U+0060), which a TLA+ string literal cannot hold.
Backtick == "backtick"

Fence == <<Backtick, Backtick, Backtick>>
CloseFence == <<"\n", Backtick, Backtick, Backtick>>
TextIdPrefix == <<"T", "E", "X", "T", "_">>
MetaIdPrefix == <<"M", "E", "T", "A", "_">>
PlaceholderOpen == <<"[", "C", "O", "D", "E", "_", "B", "L", "O", "C", "K", "_">>

\* ------------------------------------------ _extract_code_blocks_from_text
\* A greedy code group: it stops at the last line break followed by a fence.
CloseAtLast(text, from) ==
    LET qs == {q \in from..(Len(text) - 4) :
                 HasAt(text, q, <<"\n", Backtick, Backtick, Backtick>>)}
    IN IF qs = {} THEN -1 ELSE CHOOSE q \in qs : \A r \in qs : r <= q

\* The lazy code group followed by a line break and a fence: it stops at the
\* first line break followed by a fence at or after position from; -1 when
\* there is none.
CloseAt(text, from) ==
    LET qs == {q \in from..(Len(text) - Len(CloseFence)) : HasAt(text, q, CloseFence)}
    IN IF qs = {} THEN -1 ELSE Min(qs)

\* The match of the fence pattern (fence, word run, line break, lazy code,
\* line break, fence; DOTALL) that starts at p, or NoMatch.
NoMatch == [start |-> -1, end |-> -1, language |-> <<>>, code |-> <<>>]

FenceMatchAt(text, p) ==
    IF ~HasAt(text, p, Fence) THEN NoMatch
    ELSE LET w == RunLen(text, p + 3, WordChars)
             nl == p + 3 + w
         IN IF ~HasAt(text, nl, <<"\n">>) THEN NoMatch
            ELSE LET q == CloseAt(text, nl + 1)
                 IN IF q < 0 THEN NoMatch
                    ELSE [start |-> p, end |-> q + Len(CloseFence),
                          language |-> Slice(text, p + 3, nl),
                          code |-> Slice(text, nl + 1, q)]

\* A scan that resumes one character after the start of the last match.
ResumeInsideMatch(m) == m.start + 1

\* where re.finditer looks for the next match after match m
ResumeAfter(m) == m.end

\* re.finditer(pattern, text, re.DOTALL): the matches, left to right
RECURSIVE FenceMatches(_, _)
FenceMatches(text, from) ==
    LET ps == {p \in from..Len(text) : FenceMatchAt(text, p).start >= 0}
    IN IF ps = {} THEN <<>>
       ELSE LET m == FenceMatchAt(text, Min(ps))
            IN <<m>> \o FenceMatches(text, ResumeAfter(m))

\* The blocks appended by the loop body; counter is self.code_counter on entry.
ExtractCodeBlocksFromText(text, counter) ==
    LET ms == FenceMatches(text, 0)
    IN [k \in 1..Len(ms) |->
          [id |-> TextIdPrefix \o Str(counter + k - 1),
           code |-> ms[k].code,
           language |-> ms[k].language,
           source |-> "text",
           start_pos |-> ms[k].start,
           end_pos |-> ms[k].end]]

\* -------------------------------------- _extract_code_blocks_from_response
\* A fragment is a str (isStr) or a dict that may carry 'value'.
RECURSIVE FullText(_)
FullText(parts) ==
    IF parts = <<>> THEN <<>>
    ELSE LET part == Head(parts)
         IN (IF (~part.isStr /\ part.hasValue) \/ part.isStr
             THEN part.value ELSE <<>>) \o FullText(Tail(parts))

PlaceholderFor(id) == PlaceholderOpen \o id \o <<"]">>

\* The replacement loop over reversed(code_blocks); k blocks remain to be done.
RECURSIVE ReplaceBlocks(_, _, _)
ReplaceBlocks(processed, blocks, k) ==
    IF k = 0 THEN processed
    ELSE LET b == blocks[k]
         IN ReplaceBlocks(Slice(processed, 0, b.start_pos) \o PlaceholderFor(b.id)
                            \o Slice(processed, b.end_pos, Len(processed)),
                          blocks, k - 1)

ProcessedText(full, blocks) == ReplaceBlocks(full, blocks, Len(blocks))

\* A metadata loop that stops at the first entry without 'code'.
RECURSIVE MetadataBlocksUntilMissing(_, _)
MetadataBlocksUntilMissing(meta, counter) ==
    IF meta = <<>> \/ ~Head(meta).hasCode THEN <<>>
    ELSE <<[id |-> <<"M", "E", "T", "A", "_">> \o Str(counter),
            code |-> Head(meta).code,
            language |-> Head(meta).language,
            source |-> "metadata",
            start_pos |-> -1,
            end_pos |-> -1]>> \o MetadataBlocksUntilMissing(Tail(meta), counter + 1)

\* ------------------------------------------ _get_code_blocks_from_metadata
\* meta is request['result']['metadata']['codeBlocks'] (<<>> when any of the
\* three keys is absent); an entry without 'code' is skipped and takes no id.
RECURSIVE MetadataBlocks(_, _)
MetadataBlocks(meta, counter) ==
    IF meta = <<>> THEN <<>>
    ELSE LET block == Head(meta)
         IN IF block.hasCode
            THEN <<[id |-> MetaIdPrefix \o Str(counter),
                    code |-> block.code,
                    language |-> block.language,
                    source |-> "metadata",
                    start_pos |-> -1,
                    end_pos |-> -1]>> \o MetadataBlocks(Tail(meta), counter + 1)
            ELSE MetadataBlocks(Tail(meta), counter)

\* ------------------------------------------------- convert: the segment loop
\* block_map = {block['id']: block for block in text_code_blocks}
BlockMap(blocks) ==
    [id \in {blocks[k].id : k \in 1..Len(blocks)} |->
        LET ks == {k \in 1..Len(blocks) : blocks[k].id = id}
        IN blocks[CHOOSE k \in ks : \A j \in ks : j <= k]]

\* The match of the placeholder pattern (bracket, CODE_BLOCK_, group TEXT_ and
\* one or more digits, bracket) that starts at p, or a match with start -1.
PlaceholderMatchAt(text, p) ==
    LET lit == PlaceholderOpen \o TextIdPrefix
        d == RunLen(text, p + Len(lit), Digits)
    IN IF HasAt(text, p, lit) /\ d >= 1 /\ HasAt(text, p + Len(lit) + d, <<"]">>)
       THEN [start |-> p, end |-> p + Len(lit) + d + 1,
             id |-> Slice(text, p + Len(PlaceholderOpen), p + Len(lit) + d)]
       ELSE [start |-> -1, end |-> -1, id |-> <<>>]

RECURSIVE PlaceholderMatches(_, _)
PlaceholderMatches(text, from) ==
    LET ps == {p \in from..Len(text) : PlaceholderMatchAt(text, p).start >= 0}
    IN IF ps = {} THEN <<>>
       ELSE LET m == PlaceholderMatchAt(text, Min(ps))
            IN <<m>> \o PlaceholderMatches(text, m.end)

NoBlock ==
    [id |-> <<>>, code |-> <<>>, language |-> <<>>, source |-> "none",
     start_pos |-> -1, end_pos |-> -1]

TextSegment(content) == [type |-> "text", content |-> content, block |-> NoBlock]
CodeSegment(block) == [type |-> "code", content |-> <<>>, block |-> block]

\* What the loop body appends at a placeholder whose identifier is id.
PlaceholderSegments(id, block_map) ==
    IF id \in DOMAIN block_map THEN <<CodeSegment(block_map[id])>> ELSE <<>>

\* The loop over the placeholder matches ms, from match k on, and the code
\* after it that adds the remaining text.
RECURSIVE SegmentLoop(_, _, _, _, _)
SegmentLoop(text, block_map, ms, k, current_pos) ==
    IF k > Len(ms)
    THEN IF current_pos < Len(text)
         THEN <<TextSegment(Slice(text, current_pos, Len(text)))>>
         ELSE <<>>
    ELSE LET m == ms[k]
         IN (IF m.start > current_pos
             THEN <<TextSegment(Slice(text, current_pos, m.start))>>
             ELSE <<>>)
            \o PlaceholderSegments(m.id, block_map)
            \o SegmentLoop(text, block_map, ms, k + 1, m.end)

Segments(text, block_map) ==
    SegmentLoop(text, block_map, PlaceholderMatches(text, 0), 1, 0)

\* ------------------------------------------------------------- _escape_html
\* The five replace calls; & goes first, so no later one touches its output.
EscapeChar(c) ==
    CASE c = "&" -> <<"&", "a", "m", "p", ";">>
      [] c = "<" -> <<"&", "l", "t", ";">>
      [] c = ">" -> <<"&", "g", "t", ";">>
      [] c = "\"" -> <<"&", "q", "u", "o", "t", ";">>
      [] c = "'" -> <<"&", "#", "x", "2", "7", ";">>
      [] OTHER -> <<c>>

EscapeHtml(text) == Concat([k \in 1..Len(text) |-> EscapeChar(text[k])])

\* ------------------------------------------------ _process_message_content
\* The end of the lazy group of a pattern open, group, close whose open
\* starts at p: the group holds at least minLen characters, none of them in
\* excl; -1 when the pattern does not match at p.
DelimitedEnd(s, p, open, close, excl, minLen) ==
    LET st == p + Len(open)
        qs == {q \in (st + minLen)..(Len(s) - Len(close)) :
                 /\ HasAt(s, q, close)
                 /\ \A k \in (st + 1)..q : s[k] \notin excl}
    IN IF HasAt(s, p, open) /\ qs # {} THEN Min(qs) ELSE -1

\* re.sub of such a pattern by pre, group, post, from position p on.
RECURSIVE SubDelimited(_, _, _, _, _, _, _, _)
SubDelimited(s, p, open, close, excl, minLen, pre, post) ==
    LET ps == {x \in p..Len(s) : DelimitedEnd(s, x, open, close, excl, minLen) >= 0}
    IN IF ps = {} THEN Slice(s, p, Len(s))
       ELSE LET x == Min(ps)
                q == DelimitedEnd(s, x, open, close, excl, minLen)
            IN Slice(s, p, x) \o pre \o Slice(s, x + Len(open), q) \o post
               \o SubDelimited(s, q + Len(close), open, close, excl, minLen, pre, post)

\* re.sub of a heading pattern (line start, marks, lazy group, line end;
\* MULTILINE), from position p on.
RECURSIVE SubHeading(_, _, _, _)
SubHeading(s, p, marks, size) ==
    LET ps == {x \in p..Len(s) : (x = 0 \/ s[x] = "\n") /\ HasAt(s, x, marks)}
    IN IF ps = {} THEN Slice(s, p, Len(s))
       ELSE LET x == Min(ps)
                st == x + Len(marks)
                e == st + RunLen(s, st, {s[k] : k \in 1..Len(s)} \ {"\n"})
            IN Slice(s, p, x)
               \o <<"<", "f", "o", "n", "t", " ", "s", "i", "z", "e", "=", "\"">> \o size
               \o <<"\"", ">", "<", "b", ">">> \o Slice(s, st, e)
               \o <<"<", "/", "b", ">", "<", "/", "f", "o", "n", "t", ">">>
               \o SubHeading(s, e, marks, size)

\* content.replace('\n', '<br/>')
LineBreaks(s) ==
    Concat([k \in 1..Len(s) |->
              IF s[k] = "\n" THEN <<"<", "b", "r", "/", ">">> ELSE <<s[k]>>])

Bold(s) ==
    SubDelimited(s, 0, <<"*", "*">>, <<"*", "*">>, {"\n"}, 0,
                 <<"<", "b", ">">>, <<"<", "/", "b", ">">>)
Italic(s) ==
    SubDelimited(s, 0, <<"*">>, <<"*">>, {"\n"}, 0,
                 <<"<", "i", ">">>, <<"<", "/", "i", ">">>)
InlineCode(s) ==
    SubDelimited(s, 0, <<Backtick>>, <<Backtick>>, {Backtick}, 1,
                 <<"<", "f", "o", "n", "t", " ", "n", "a", "m", "e", "=", "\"",
                   "C", "o", "u", "r", "i", "e", "r", "\"", ">">>,
                 <<"<", "/", "f", "o", "n", "t", ">">>)
Headings(s) ==
    SubHeading(
      SubHeading(
        SubHeading(
          SubHeading(s, 0, <<"#", "#", "#", "#", " ">>, <<"1", "0">>),
          0, <<"#", "#", "#", " ">>, <<"1", "1">>),
        0, <<"#", "#", " ">>, <<"1", "2">>),
      0, <<"#", " ">>, <<"1", "4">>)

ProcessMessageContent(content) ==
    IF content = <<>> THEN <<>>
    ELSE LineBreaks(Headings(InlineCode(Italic(Bold(EscapeHtml(content))))))

\* ------------------------------------------------------------------- inputs
\* A response fragment: a str, or a dict with or without 'value'.
StrPart(value) == [isStr |-> TRUE, hasValue |-> FALSE, value |-> value]
DictPart(value) == [isStr |-> FALSE, hasValue |-> TRUE, value |-> value]
ToolPart == [isStr |-> FALSE, hasValue |-> FALSE, value |-> <<>>]

\* An entry of the metadata's codeBlocks list, with or without 'code'.
MetaEntry(code, language) == [hasCode |-> TRUE, code |-> code, language |-> language]
MetaNoCode == [hasCode |-> FALSE, code |-> <<>>, language |-> <<>>]

\* A record of the 'requests' list: message is request['message']['text'] ('' when
\* absent), response is request['response'] (<<>> when absent), meta is the
\* metadata's codeBlocks list (<<>> when absent).
Request(hasTimestamp, message, response, meta) ==
    [hasTimestamp |-> hasTimestamp, message |-> message,
     response |-> response, meta |-> meta]

LiteralPlaceholder(n) == PlaceholderFor(TextIdPrefix \o Str(n))

\* The pieces the response texts of TextSpec are made of.
Chunks ==
    {Fence, <<"\n">>, <<"a">>, <<" ">>, Fence \o <<"a", "\n">>, CloseFence,
     LiteralPlaceholder(0), LiteralPlaceholder(1)}

RECURSIVE ChunkTexts(_)
ChunkTexts(n) ==
    IF n = 0 THEN {<<>>}
    ELSE LET shorter == ChunkTexts(n - 1)
         IN shorter \cup {t \o c : t \in shorter, c \in Chunks}

Texts == ChunkTexts(MaxChunks)

\* The documents of TextSpec: one record, whose response is one str fragment.
TextDocs == {<<Request(FALSE, <<>>, <<StrPart(t)>>, <<>>)>> : t \in Texts}

OneBlock == Fence \o <<"a", "\n", "a">> \o CloseFence
Responses ==
    {<<>>,
     <<StrPart(<<>>)>>,
     <<ToolPart>>,
     <<StrPart(<<"a">>)>>,
     <<StrPart(Fence \o <<"a", "\n">>), ToolPart, DictPart(<<"a">> \o CloseFence)>>,
     <<StrPart(OneBlock \o <<"\n">> \o OneBlock), DictPart(<<" ", "a">>)>>}

Metas ==
    {<<>>,
     <<MetaEntry(<<"m">>, <<"p", "y">>)>>,
     <<MetaEntry(<<"m">>, <<>>), MetaNoCode, MetaEntry(<<"n">>, <<"p", "y">>)>>}

Requests ==
    {Request(TRUE, <<"*", "*", "a", "*", "*">>, r, m) : r \in Responses, m \in Metas}
    \cup {Request(FALSE, <<>>, r, <<>>) : r \in {<<>>, <<StrPart(<<"a">>)>>}}

RECURSIVE DocsUpTo(_)
DocsUpTo(n) ==
    IF n = 0 THEN {<<>>}
    ELSE LET shorter == DocsUpTo(n - 1)
         IN shorter \cup {Append(d, r) : d \in shorter, r \in Requests}

Docs == DocsUpTo(MaxRecords)

\* -------------------------------------------------------------------- state
VARIABLES
    pc,                   \* where main() is
    input_exists,         \* input_path.exists()
    input_ok,             \* open() and json.load() succeed
    requests,             \* chat_data.get('requests', []) of the input file
    i,                    \* records processed so far: the loop index
    code_counter,         \* self.code_counter
    story,                \* self.story
    text,                 \* convert's local text
    text_code_blocks,     \* convert's local text_code_blocks
    metadata_code_blocks, \* convert's local metadata_code_blocks
    block_map,            \* convert's local block_map
    segments,             \* convert's local segments
    out,                  \* what was printed
    build_calls,          \* calls of self.doc.build
    ret,                  \* convert's return value: "none", "True" or "False"
    exit_code             \* main's return value, -1 before it returns

vars ==
    <<pc, input_exists, input_ok, requests, i, code_counter, story, text,
      text_code_blocks, metadata_code_blocks, block_map, segments, out,
      build_calls, ret, exit_code>>

\* ------------------------------------------------------------ story elements
\* rec is the record's message number (0 on the title page), seg the index of
\* the segment an element renders (0 when none) and origin the 'source' of the
\* block a code element renders: the three are annotations of the trace, the
\* flowables do not carry them.
Element(kind, rec, seg, content, language, origin) ==
    [kind |-> kind, rec |-> rec, seg |-> seg, content |-> content,
     language |-> language, origin |-> origin]

Spacer(rec) == Element("spacer", rec, 0, <<>>, <<>>, "none")
PageBreak(rec) == Element("pagebreak", rec, 0, <<>>, <<>>, "none")

\* _add_title_page
TitlePage(reqs) ==
    <<Spacer(0),
      Element("title", 0, 0, <<>>, <<>>, "none"),
      Element("requester", 0, 0, <<>>, <<>>, "none"),
      Element("export_date", 0, 0, <<>>, <<>>, "none"),
      Element("total", 0, 0, Str(Len(reqs)), <<>>, "none"),
      PageBreak(0)>>

\* _add_code_block_flowable
CodeBlockFlowable(rec, seg, block) ==
    <<Element("code", rec, seg, block.code, block.language, block.source),
      Spacer(rec)>>

\* The header paragraph; "strftime" stands for the formatted timestamp.
Header(rec, request) ==
    Element("header", rec, 0,
            <<"M", "e", "s", "s", "a", "g", "e", " ">> \o Str(rec)
              \o (IF request.hasTimestamp THEN <<" ", "-", " ", "strftime">> ELSE <<>>),
            <<>>, "none")

UserMessage(rec, request) ==
    IF request.message # <<>>
    THEN <<Element("user", rec, 0,
                   <<"<", "b", ">", "U", "s", "e", "r", ":", "<", "/", "b", ">", " ">>
                     \o ProcessMessageContent(request.message),
                   <<>>, "none"),
           Spacer(rec)>>
    ELSE <<>>

AssistantIntro(rec) ==
    Element("assistant_intro", rec, 0,
            <<"<", "b", ">", "A", "s", "s", "i", "s", "t", "a", "n", "t", ":", "<", "/", "b", ">">>,
            <<>>, "none")

\* The body of the loop over segments, for segment j.
RenderSegment(rec, j, segment) ==
    IF segment.type = "text"
    THEN LET processed_text == ProcessMessageContent(segment.content)
         IN IF StripNonEmpty(processed_text)
            THEN <<Element("assistant_text", rec, j, processed_text, <<>>, "none")>>
            ELSE <<>>
    ELSE CodeBlockFlowable(rec, j, segment.block)

RenderSegments(rec, segs) ==
    Concat([j \in 1..Len(segs) |-> RenderSegment(rec, j, segs[j])])

RenderMetadata(rec, blocks) ==
    Concat([k \in 1..Len(blocks) |-> CodeBlockFlowable(rec, 0, blocks[k])])

\* An if in place of the elif: metadata blocks are rendered whenever they exist.
MetadataAlways(txt, blocks) == blocks # <<>>

\* The elif of the response branch: text is falsy and metadata blocks exist.
MetadataFallback(txt, blocks) == txt = <<>> /\ blocks # <<>>

\* What the response branch appends for a record with response fragments.
ResponseElements(rec, txt, segs, blocks) ==
    (IF txt # <<>> THEN <<AssistantIntro(rec)>> \o RenderSegments(rec, segs) ELSE <<>>)
    \o (IF MetadataFallback(txt, blocks)
        THEN <<AssistantIntro(rec)>> \o RenderMetadata(rec, blocks)
        ELSE <<>>)

\* A loop body without the reset.
CounterKept(counter) == counter

\* self.code_counter = 0 at the top of the loop body
CounterAtRecordStart(counter) == 0

\* ------------------------------------------------------------------ actions
\* The state before main() runs, for an input file holding document docs.
InitOver(docs) ==
    /\ pc = "main"
    /\ \/ input_exists = FALSE /\ input_ok = FALSE /\ requests = <<>>
       \/ input_exists = TRUE /\ input_ok = FALSE /\ requests = <<>>
       \/ input_exists = TRUE /\ input_ok = TRUE /\ requests \in docs
    /\ i = 0
    /\ code_counter = 0
    /\ story = <<>>
    /\ text = <<>>
    /\ text_code_blocks = <<>>
    /\ metadata_code_blocks = <<>>
    /\ block_map = <<>>
    /\ segments = <<>>
    /\ out = <<>>
    /\ build_calls = 0
    /\ ret = "none"
    /\ exit_code = -1

Init == InitOver(Docs)

InitText == InitOver(TextDocs)

\* main: the input path does not exist
MainMissingInput ==
    /\ pc = "main"
    /\ ~input_exists
    /\ out' = Append(out, "input does not exist")
    /\ exit_code' = 1
    /\ pc' = "exit"
    /\ UNCHANGED <<input_exists, input_ok, requests, i, code_counter, story, text,
                   text_code_blocks, metadata_code_blocks, block_map, segments,
                   build_calls, ret>>

\* main: the path exists, the converter is built and convert() is called
MainCallsConvert ==
    /\ pc = "main"
    /\ input_exists
    /\ story' = <<>>
    /\ code_counter' = 0
    /\ pc' = "convert"
    /\ UNCHANGED <<input_exists, input_ok, requests, i, text, text_code_blocks,
                   metadata_code_blocks, block_map, segments, out, build_calls,
                   ret, exit_code>>

\* An except branch that reports and goes on instead of returning False.
ConvertReadFailsGoesOn ==
    /\ pc = "convert"
    /\ ~input_ok
    /\ out' = Append(out, "error reading JSON file")
    /\ story' = story \o TitlePage(requests)
    /\ pc' = "build"
    /\ UNCHANGED <<input_exists, input_ok, requests, i, code_counter, text,
                   text_code_blocks, metadata_code_blocks, block_map, segments,
                   build_calls, ret, exit_code>>

\* convert: open() or json.load() raises
ConvertReadFails ==
    /\ pc = "convert"
    /\ ~input_ok
    /\ out' = Append(out, "error reading JSON file")
    /\ ret' = "False"
    /\ pc' = "return"
    /\ UNCHANGED <<input_exists, input_ok, requests, i, code_counter, story, text,
                   text_code_blocks, metadata_code_blocks, block_map, segments,
                   build_calls, exit_code>>

\* convert: the payload is read and the title page added
ConvertReads ==
    /\ pc = "convert"
    /\ input_ok
    /\ story' = story \o TitlePage(requests)
    /\ pc' = IF Len(requests) = 0 THEN "build" ELSE "loop"
    /\ UNCHANGED <<input_exists, input_ok, requests, i, code_counter, text,
                   text_code_blocks, metadata_code_blocks, block_map, segments,
                   out, build_calls, ret, exit_code>>

\* convert: one pass of the loop over the records, for requests[i] (0-based)
ProcessRecord ==
    /\ pc = "loop"
    /\ i < Len(requests)
    /\ LET request == requests[i + 1]
           rec == i + 1
           response_parts == request.response
           counter0 == CounterAtRecordStart(code_counter)
           full_text == FullText(response_parts)
           blocks == ExtractCodeBlocksFromText(full_text, counter0)
           txt == ProcessedText(full_text, blocks)
           meta == MetadataBlocks(request.meta, counter0 + Len(blocks))
           map == BlockMap(blocks)
           segs == Segments(txt, map)
           hasResponse == response_parts # <<>>
       IN /\ code_counter' = IF hasResponse
                             THEN counter0 + Len(blocks) + Len(meta)
                             ELSE counter0
          /\ text' = IF hasResponse THEN txt ELSE text
          /\ text_code_blocks' = IF hasResponse THEN blocks ELSE text_code_blocks
          /\ metadata_code_blocks' = IF hasResponse THEN meta ELSE metadata_code_blocks
          /\ block_map' = IF hasResponse /\ txt # <<>> THEN map ELSE block_map
          /\ segments' = IF hasResponse /\ txt # <<>> THEN segs ELSE segments
          /\ story' = story
                \o <<Header(rec, request)>>
                \o UserMessage(rec, request)
                \o (IF hasResponse THEN ResponseElements(rec, txt, segs, meta) ELSE <<>>)
                \o <<Spacer(rec)>>
                \o (IF (i + 1) % 3 = 0 /\ i < Len(requests) - 1
                    THEN <<PageBreak(rec)>> ELSE <<>>)
    /\ i' = i + 1
    /\ pc' = IF i + 1 = Len(requests) THEN "build" ELSE "loop"
    /\ UNCHANGED <<input_exists, input_ok, requests, out, build_calls, ret, exit_code>>

\* A build call indented into the loop: it runs while records remain.
BuildInsideLoop ==
    /\ pc \in {"loop", "build"}
    /\ build_calls' = build_calls + 1
    /\ out' = Append(out, "PDF successfully created")
    /\ ret' = "True"
    /\ pc' = "return"
    /\ UNCHANGED <<input_exists, input_ok, requests, i, code_counter, story, text,
                   text_code_blocks, metadata_code_blocks, block_map, segments,
                   exit_code>>

\* convert: self.doc.build(self.story) returns
BuildSucceeds ==
    /\ pc = "build"
    /\ build_calls' = build_calls + 1
    /\ out' = Append(out, "PDF successfully created")
    /\ ret' = "True"
    /\ pc' = "return"
    /\ UNCHANGED <<input_exists, input_ok, requests, i, code_counter, story, text,
                   text_code_blocks, metadata_code_blocks, block_map, segments,
                   exit_code>>

\* convert: self.doc.build(self.story) raises
BuildFails ==
    /\ pc = "build"
    /\ build_calls' = build_calls + 1
    /\ out' = Append(out, "error creating PDF")
    /\ ret' = "False"
    /\ pc' = "return"
    /\ UNCHANGED <<input_exists, input_ok, requests, i, code_counter, story, text,
                   text_code_blocks, metadata_code_blocks, block_map, segments,
                   exit_code>>

\* main: return 0 if success else 1
MainReturns ==
    /\ pc = "return"
    /\ exit_code' = IF ret = "True" THEN 0 ELSE 1
    /\ pc' = "exit"
    /\ UNCHANGED <<input_exists, input_ok, requests, i, code_counter, story, text,
                   text_code_blocks, metadata_code_blocks, block_map, segments,
                   out, build_calls, ret>>

Next ==
    \/ MainMissingInput
    \/ MainCallsConvert
    \/ ConvertReadFails
    \/ ConvertReads
    \/ ProcessRecord
    \/ BuildSucceeds
    \/ BuildFails
    \/ MainReturns

\* A run over a document of up to MaxRecords records.
Spec == Init /\ [][Next]_vars

\* A run over a one-record document whose response text is any of Texts.
TextSpec == InitText /\ [][Next]_vars

\* ------------------------------------------------------------------- claims
\* s contains lit
Contains(s, lit) == \E p \in 0..(Len(s) - Len(lit)) : HasAt(s, p, lit)

\* s.strip() == ''
IsBlank(s) == \A k \in 1..Len(s) : s[k] \in Whitespace

\* The record the last pass of the loop processed, and its response text.
LastRequest == requests[i]
LastFullText == FullText(LastRequest.response)
\* The last pass ran the response branch, so text and the block lists are its.
ResponseProcessed == i >= 1 /\ LastRequest.response # <<>>
\* The last pass ran the segment loop, so block_map and segments are its.
SegmentsBuilt == ResponseProcessed /\ text # <<>>
\* The segments of the last pass: none when its text was empty.
LastSegments == IF text # <<>> THEN segments ELSE <<>>

\* The elements of record rec's response that render code, and text.
CodeElements(rec) == SelectSeq(story, LAMBDA e : e.rec = rec /\ e.kind = "code")
TextElements(rec) == SelectSeq(story, LAMBDA e : e.rec = rec /\ e.kind = "assistant_text")

\* C1: extracting the blocks of a response text, reassembling the segments and
\* concatenating them in order (a text segment gives its content, a code
\* segment the source span of its block) yields the original text.
C1_RoundTrip ==
    ResponseProcessed =>
        Concat([j \in 1..Len(LastSegments) |->
                  IF LastSegments[j].type = "text"
                  THEN LastSegments[j].content
                  ELSE Slice(LastFullText, LastSegments[j].block.start_pos,
                             LastSegments[j].block.end_pos)]) = LastFullText

\* C2: the spans of the extracted blocks are non-empty, lie in the text, and
\* each ends no later than the next one starts.
C2_SpansOrdered ==
    ResponseProcessed =>
        \A k \in 1..Len(text_code_blocks) :
            /\ 0 <= text_code_blocks[k].start_pos
            /\ text_code_blocks[k].start_pos < text_code_blocks[k].end_pos
            /\ text_code_blocks[k].end_pos <= Len(LastFullText)
            /\ k < Len(text_code_blocks) =>
                   text_code_blocks[k].end_pos <= text_code_blocks[k + 1].start_pos

\* C2 witness: a text with two blocks has been extracted.
C2_Witness == ResponseProcessed /\ Len(text_code_blocks) >= 2

\* b is a block of the text full: its span holds its fence, language and code.
BlockOf(full, b) ==
    /\ 0 <= b.start_pos
    /\ b.end_pos <= Len(full)
    /\ Slice(full, b.start_pos, b.end_pos)
         = Fence \o b.language \o <<"\n">> \o b.code \o CloseFence

\* C3: in every record the k-th inline block (from 0) is TEXT_k whatever the
\* earlier records produced, and the block map of a record holds only blocks
\* of that record's text, under their own identifiers.
C3_CounterReset ==
    ResponseProcessed =>
        /\ \A k \in 1..Len(text_code_blocks) :
               text_code_blocks[k].id = TextIdPrefix \o Str(k - 1)
        /\ text # <<>> =>
               /\ DOMAIN block_map = {TextIdPrefix \o Str(k - 1) : k \in 1..Len(text_code_blocks)}
               /\ \A id \in DOMAIN block_map :
                      block_map[id].id = id /\ BlockOf(LastFullText, block_map[id])

\* C3 witness: the second record has an inline block and the first had one too.
C3_Witness ==
    /\ i = 2
    /\ ResponseProcessed
    /\ Len(text_code_blocks) >= 1
    /\ Len(ExtractCodeBlocksFromText(FullText(requests[1].response), 0)) >= 1

\* the entries of a metadata list that carry 'code'
WithCode(meta) == SelectSeq(meta, LAMBDA b : b.hasCode)

\* C4, as claimed: a record whose response text is empty and whose metadata
\* lists k code blocks renders exactly those k blocks, in order, and no text.
C4_AsClaimed ==
    \A r \in 1..i :
        FullText(requests[r].response) = <<>> =>
            /\ TextElements(r) = <<>>
            /\ Len(CodeElements(r)) = Len(requests[r].meta)

\* C4, amended: a record whose response text is empty renders no text segment;
\* if its response has at least one fragment it renders exactly the metadata
\* entries that carry code, in metadata order, and otherwise no code at all.
C4_MetadataFallback ==
    \A r \in 1..i :
        FullText(requests[r].response) = <<>> =>
            LET listed == IF requests[r].response # <<>>
                          THEN WithCode(requests[r].meta) ELSE <<>>
                shown == CodeElements(r)
            IN /\ TextElements(r) = <<>>
               /\ Len(shown) = Len(listed)
               /\ \A k \in 1..Len(shown) :
                      /\ shown[k].content = listed[k].code
                      /\ shown[k].language = listed[k].language
                      /\ shown[k].origin = "metadata"

\* C4 witness: a processed record with fragments, an empty text and a metadata
\* list of three entries, one of them without code.
C4_Witness ==
    \E r \in 1..i :
        /\ requests[r].response # <<>>
        /\ FullText(requests[r].response) = <<>>
        /\ Len(requests[r].meta) = 3
        /\ Len(WithCode(requests[r].meta)) = 2
        /\ Len(CodeElements(r)) = 2

\* C5: a record whose response text is not empty renders no metadata block:
\* every code element of it comes from an inline block.
C5_InlinePrecedence ==
    \A r \in 1..i :
        FullText(requests[r].response) # <<>> =>
            \A k \in 1..Len(story) :
                story[k].rec = r => story[k].origin # "metadata"

\* C5 witness: a processed record with a non-empty response text, metadata
\* code blocks and an inline block rendered.
C5_Witness ==
    \E r \in 1..i :
        /\ FullText(requests[r].response) # <<>>
        /\ WithCode(requests[r].meta) # <<>>
        /\ CodeElements(r) # <<>>

\* An opening fence (fence, word run, line break) starts at p and no fence
\* occurs after its line break.
UnterminatedAt(full, p) ==
    LET nl == p + 3 + RunLen(full, p + 3, WordChars)
    IN /\ HasAt(full, p, Fence)
       /\ HasAt(full, nl, <<"\n">>)
       /\ \A q \in (nl + 1)..Len(full) : ~HasAt(full, q, Fence)

\* The text holds no well-formed fence: no opening fence is followed, after
\* its line break, by a line break and a fence.
NoWellFormedFence(full) ==
    \A p \in 0..Len(full) :
        LET nl == p + 3 + RunLen(full, p + 3, WordChars)
        IN ~(/\ HasAt(full, p, Fence)
             /\ HasAt(full, nl, <<"\n">>)
             /\ \E q \in (nl + 1)..Len(full) : HasAt(full, q, CloseFence))

\* C6: an opening fence with no fence after it yields no block and, where it
\* is not the closing fence of an earlier block, its text stays as it was; a text with no well-formed fence yields zero
\* blocks, a substituted text equal to the original, and one text segment
\* equal to the original.  (Stated for the non-empty texts: for an empty text
\* convert builds no segment at all.)
C6_UnterminatedFence ==
    (ResponseProcessed /\ LastFullText # <<>>) =>
        /\ \A p \in 0..Len(LastFullText) :
               UnterminatedAt(LastFullText, p) =>
                   /\ \A k \in 1..Len(text_code_blocks) :
                          text_code_blocks[k].start_pos # p
                   /\ (\A k \in 1..Len(text_code_blocks) :
                           text_code_blocks[k].end_pos <= p) =>
                          Slice(text, Len(text) - (Len(LastFullText) - p), Len(text))
                            = Slice(LastFullText, p, Len(LastFullText))
        /\ NoWellFormedFence(LastFullText) =>
               /\ text_code_blocks = <<>>
               /\ text = LastFullText
               /\ segments = <<TextSegment(LastFullText)>>

\* the placeholder matches of the substituted text whose identifier is unknown
UnknownPlaceholders ==
    LET ms == PlaceholderMatches(text, 0)
    IN {k \in 1..Len(ms) : ms[k].id \notin DOMAIN block_map}

\* C7: a placeholder whose identifier is not in the block map stays as
\* literal text: its characters are in the content of an emitted text segment.
C7_UnknownPlaceholderKept ==
    SegmentsBuilt =>
        \A k \in UnknownPlaceholders :
            \E j \in 1..Len(segments) :
                /\ segments[j].type = "text"
                /\ Contains(segments[j].content,
                            PlaceholderFor(PlaceholderMatches(text, 0)[k].id))

\* C8: when the input path does not exist or the payload cannot be read, the
\* failure is reported, convert (if called) returns False, main returns 1, no
\* record is processed, nothing is added to the story and build is never called.
C8_InputFailureAborts ==
    (~input_exists \/ ~input_ok) =>
        /\ i = 0
        /\ story = <<>>
        /\ build_calls = 0
        /\ ~input_exists => ret = "none"
        /\ (input_exists /\ pc \in {"return", "exit"}) =>
               ret = "False" /\ out = <<"error reading JSON file">>
        /\ pc = "exit" =>
               /\ exit_code = 1
               /\ ~input_exists => out = <<"input does not exist">>

\* C8 witness: main has returned after convert failed to read the payload.
C8_Witness == pc = "exit" /\ input_exists /\ ~input_ok /\ exit_code = 1

\* C9: a text segment whose content is empty or only whitespace produces no
\* paragraph in the story.
C9_BlankNeverRendered ==
    SegmentsBuilt =>
        \A j \in 1..Len(segments) :
            (segments[j].type = "text" /\ IsBlank(segments[j].content)) =>
                ~\E k \in 1..Len(story) :
                    /\ story[k].rec = i
                    /\ story[k].seg = j
                    /\ story[k].kind = "assistant_text"

\* the position after the opening line break of block b
CodeStart(b) == b.start_pos + 3 + Len(b.language) + 1

\* what C10 says of the start of a block and of its captures, given where
\* the code ends
FenceOpensBlock(full, b, codeEnd) ==
    /\ HasAt(full, b.start_pos, Fence)
    /\ \A k \in 1..Len(b.language) : b.language[k] \in WordChars
    /\ Slice(full, b.start_pos + 3, b.start_pos + 3 + Len(b.language)) = b.language
    /\ HasAt(full, CodeStart(b) - 1, <<"\n">>)
    /\ codeEnd >= CodeStart(b)
    /\ b.code = Slice(full, CodeStart(b), codeEnd)

\* C10, as claimed: a block ends at the next fence after its opening line
\* break, so its code holds no fence.
C10_AsClaimed ==
    ResponseProcessed =>
        \A k \in 1..Len(text_code_blocks) :
            LET b == text_code_blocks[k]
            IN /\ HasAt(LastFullText, b.end_pos - 3, Fence)
               /\ \A q \in CodeStart(b)..(b.end_pos - 4) : ~HasAt(LastFullText, q, Fence)
               /\ ~Contains(b.code, Fence)

\* C10, amended: a block starts at a fence followed by a word run (the
\* language, possibly empty) and a line break, and ends at the first line
\* break followed by a fence after that line break; its code is the source
\* text in between, and holds no line break followed by a fence.
C10_FenceClosing ==
    ResponseProcessed =>
        \A k \in 1..Len(text_code_blocks) :
            LET b == text_code_blocks[k]
                close == b.end_pos - 4
            IN /\ FenceOpensBlock(LastFullText, b, close)
               /\ HasAt(LastFullText, close, CloseFence)
               /\ \A q \in CodeStart(b)..(close - 1) : ~HasAt(LastFullText, q, CloseFence)
               /\ ~Contains(b.code, CloseFence)

\* C10 witness: a block whose code holds a fence, and one with a language.
C10_Witness ==
    /\ ResponseProcessed
    /\ \E k \in 1..Len(text_code_blocks) :
           /\ Contains(text_code_blocks[k].code, Fence)
           /\ text_code_blocks[k].language # <<>>

\* the code segments of the last pass, in order
LastCodeSegments == SelectSeq(LastSegments, LAMBDA g : g.type = "code")

\* C11: after substitution and reassembly the segment sequence holds exactly
\* one code segment per extracted inline block, in extraction order: no block
\* is emitted twice or left out.
C11_BlocksConsumedOnce ==
    ResponseProcessed =>
        /\ Len(LastCodeSegments) = Len(text_code_blocks)
        /\ \A k \in 1..Len(LastCodeSegments) :
               LastCodeSegments[k].block = text_code_blocks[k]

\* the places of the story that hold record rec's elements
PlacesOf(rec) == {k \in 1..Len(story) : story[k].rec = rec}

AssistantKinds == {"assistant_intro", "assistant_text", "code"}

\* The story in record order: the title page, then the elements of records
\* 1..i, each record's elements together; a record starts with its header and
\* ends with its spacer (or the page break after it), and its user message is
\* the record's own and comes before its assistant response.
StoryInRecordOrder ==
    /\ \A k \in 1..Len(story) : story[k].rec \in 0..i
    /\ \A k \in 1..(Len(story) - 1) : story[k].rec <= story[k + 1].rec
    /\ \A r \in 1..i :
           LET ks == PlacesOf(r)
               first == Min(ks)
               last == CHOOSE k \in ks : \A j \in ks : j <= k
           IN /\ ks # {}
              /\ story[first].kind = "header"
              /\ story[first].content
                   = <<"M", "e", "s", "s", "a", "g", "e", " ">> \o Str(r)
                       \o (IF requests[r].hasTimestamp
                           THEN <<" ", "-", " ", "strftime">> ELSE <<>>)
              /\ \A k \in ks \ {first} : story[k].kind # "header"
              /\ story[last].kind \in {"spacer", "pagebreak"}
              /\ (requests[r].message # <<>>) <=> (\E k \in ks : story[k].kind = "user")
              /\ \A k \in ks :
                     story[k].kind = "user" =>
                         /\ k = first + 1
                         /\ story[k].content
                              = <<"<", "b", ">", "U", "s", "e", "r", ":", "<", "/", "b", ">", " ">>
                                  \o ProcessMessageContent(requests[r].message)
                         /\ \A j \in ks : story[j].kind \in AssistantKinds => k < j

\* Build is called at most once, and only when every record has been processed.
BuildAfterAllRecords ==
    /\ build_calls <= 1
    /\ build_calls = 1 => (i = Len(requests) /\ pc \in {"return", "exit"})
    /\ pc \in {"build", "return", "exit"} /\ input_exists /\ input_ok => i = Len(requests)

\* s is a prefix of t
IsPrefix(s, t) == Len(s) <= Len(t) /\ SubSeq(t, 1, Len(s)) = s

\* C12: records are processed in their original order; every element of record
\* N is in the story before any element of record N+1 and stays where it was
\* appended; within a record the user message precedes the assistant response;
\* build happens only after all records have been processed.
C12_RecordOrdering ==
    /\ [](StoryInRecordOrder /\ BuildAfterAllRecords)
    /\ [][IsPrefix(story, story') /\ (i' # i => i' = i + 1)]_vars

\* C12 witness: build has run on a two-record document in which each record has
\* a user message and a rendered assistant response.
C12_Witness ==
    /\ build_calls = 1
    /\ i = 2
    /\ \A r \in 1..2 :
           /\ \E k \in PlacesOf(r) : story[k].kind = "user"
           /\ \E k \in PlacesOf(r) : story[k].kind \in AssistantKinds

====
